---- MODULE Spec2Model ----
(***************************************************************************)
(* Model of test_geotiff/generate_test_files.py: the six fixture writers,  *)
(* the bytes each one emits through struct.pack, and main(), which creates *)
(* the output directory and calls the writers one after the other.         *)
(*                                                                         *)
(* A file is a sequence of bytes (0..255).  The directory `data` is        *)
(* modelled by `dir` (absent / a directory / a regular file in the way),   *)
(* `listing` (the names present in it) and `files` (their content).        *)
(***************************************************************************)
EXTENDS Integers, Sequences, FiniteSets, TLC

VARIABLES dir, listing, files, handles, pc, cur, wr, run, completed,
          err, files0, listing0, snap

vars == <<dir, listing, files, handles, pc, cur, wr, run, completed,
          err, files0, listing0, snap>>

\* ------------------------------------------------------------------ bounds
MaxRuns == 2
MaxPreLen == 3

\* ------------------------------------------------------- binary writer
RECURSIVE Pow256(_)
Pow256(n) == IF n = 0 THEN 1 ELSE 256 * Pow256(n - 1)

\* the little-endian packer emitting the most significant byte first
PackLE_MsbFirst(w, v) == [i \in 1..w |-> (v \div Pow256(w - i)) % 256]

\* struct.pack('<H', v) / struct.pack('<I', v): least significant byte first
PackLE(w, v) == [i \in 1..w |-> (v \div Pow256(i - 1)) % 256]

\* the big-endian packer emitting the least significant byte first
PackBE_LsbFirst(w, v) == [i \in 1..w |-> (v \div Pow256(i - 1)) % 256]

\* struct.pack('>H', v) / struct.pack('>I', v): most significant byte first
PackBE(w, v) == [i \in 1..w |-> (v \div Pow256(w - i)) % 256]

LE_H(v) == PackLE(2, v)
LE_I(v) == PackLE(4, v)
BE_H(v) == PackBE(2, v)
BE_I(v) == PackBE(4, v)
LE_HHHH(a, b, c, d) == LE_H(a) \o LE_H(b) \o LE_H(c) \o LE_H(d)
BE_HHHH(a, b, c, d) == BE_H(a) \o BE_H(b) \o BE_H(c) \o BE_H(d)

\* b'II', b'MM', b'XX' and the text of write_non_tiff, as byte values
MagicII == <<73, 73>>
MagicMM == <<77, 77>>
MagicXX == <<88, 88>>
\* "This is not a TIFF file.\n" written through a text-mode handle
NotTiffText == <<84, 104, 105, 115, 32, 105, 115, 32, 110, 111, 116, 32,
                 97, 32, 84, 73, 70, 70, 32, 102, 105, 108, 101, 46, 10>>

\* --------------------------------------------- the writers' f.write calls
LeGeotiffChunks ==
    << MagicII, LE_H(42), LE_I(8),
       LE_H(2),
       LE_H(256), LE_H(3), LE_I(1), LE_I(100),
       LE_H(34735), LE_H(3), LE_I(4), LE_I(100),
       LE_I(0),
       LE_HHHH(1, 1, 0, 0) >>

BeGeotiffChunks ==
    << MagicMM, BE_H(42), BE_I(8),
       BE_H(2),
       BE_H(256), BE_H(3), BE_I(1), BE_I(100),
       BE_H(34735), BE_H(3), BE_I(4), BE_I(100),
       BE_I(0),
       BE_HHHH(1, 1, 0, 0) >>

\* write_regular_tiff with the GeoKeyDirectoryTag entry left in
RegularChunks_WithGeoKey ==
    << MagicII, LE_H(42), LE_I(8),
       LE_H(1),
       LE_H(34735), LE_H(3), LE_I(1), LE_I(100),
       LE_I(0) >>

RegularChunks ==
    << MagicII, LE_H(42), LE_I(8),
       LE_H(1),
       LE_H(256), LE_H(3), LE_I(1), LE_I(100),
       LE_I(0) >>

\* write_corrupted_tiff with a valid magic number
CorruptedChunks_ValidMagic == << MagicII, LE_H(42), LE_I(8) >>

CorruptedChunks == << MagicXX, LE_H(42), LE_I(8) >>

TruncatedChunks == << MagicII, LE_H(42) >>

NonTiffChunks == << NotTiffText >>

Chunks(w) ==
    CASE w = "write_le_geotiff"     -> LeGeotiffChunks
      [] w = "write_be_geotiff"     -> BeGeotiffChunks
      [] w = "write_regular_tiff"   -> RegularChunks
      [] w = "write_corrupted_tiff" -> CorruptedChunks
      [] w = "write_truncated_tiff" -> TruncatedChunks
      [] w = "write_non_tiff"       -> NonTiffChunks

\* ------------------------------------------------------------------ main
\* main() without its last call
MainCalls_SkipLast ==
    << <<"write_le_geotiff",     "le_geotiff.tif">>,
       <<"write_be_geotiff",     "be_geotiff.tif">>,
       <<"write_regular_tiff",   "regular.tif">>,
       <<"write_corrupted_tiff", "corrupted.tif">>,
       <<"write_truncated_tiff", "truncated.tif">> >>

\* the calls of main(), in program order: <<writer, file name in data_dir>>
MainCalls ==
    << <<"write_le_geotiff",     "le_geotiff.tif">>,
       <<"write_be_geotiff",     "be_geotiff.tif">>,
       <<"write_regular_tiff",   "regular.tif">>,
       <<"write_corrupted_tiff", "corrupted.tif">>,
       <<"write_truncated_tiff", "truncated.tif">>,
       <<"write_non_tiff",       "not_tiff.txt">> >>

NCalls == Len(MainCalls)
Calls == 1..NCalls

Writer(i) == MainCalls[i][1]

\* write_regular_tiff given the file name of write_le_geotiff
FileName_Shared(i) == IF i = 3 THEN MainCalls[1][2] ELSE MainCalls[i][2]

FileName(i) == MainCalls[i][2]

FixtureNames == {"le_geotiff.tif", "be_geotiff.tif", "regular.tif",
                 "corrupted.tif", "truncated.tif", "not_tiff.txt"}
\* a file the generator does not know, which may lie in the directory
StrayName == "stray.bin"
Names == FixtureNames \cup {StrayName}

\* ------------------------------------------------------ file operations
\* the file opened for appending ('ab') instead of truncated
OpenTrunc_Append(content) == content

\* open(filename, 'wb') / open(filename, 'w'): the file is created or
\* truncated to length 0
OpenTrunc(content) == << >>

\* f.write(chunk): the bytes are appended at the end of the file (the
\* handle's buffer is not modelled apart: a byte counts as written once
\* f.write has taken it; an error at flush time is a WriteFail)
WriteChunk(content, chunk) == content \o chunk

\* the handle left open (open() without with or close())
WithExit_Leak(hs, name) == hs

\* leaving the `with` block, normally or by an exception, closes the handle
WithExit(hs, name) == hs \ {name}

\* an exception of the first call swallowed by main()
AfterWith_SwallowFirst(exc, i) ==
    IF exc /\ i # 1 THEN "failed"
    ELSE IF i < Len(MainCalls) THEN "open" ELSE "return"

\* where main() continues after the with block of call i: an exception is
\* not caught anywhere, so it ends main(); otherwise the next call runs
AfterWith(exc, i) ==
    IF exc THEN "failed"
    ELSE IF i < NCalls THEN "open" ELSE "return"

RECURSIVE WriteAll(_, _, _)
WriteAll(content, chunks, j) ==
    IF j > Len(chunks) THEN content
    ELSE WriteAll(WriteChunk(content, chunks[j]), chunks, j + 1)

\* the content of the file when call i has returned
FileAfter(i, content) == WriteAll(OpenTrunc(content), Chunks(Writer(i)), 1)

\* ------------------------------------------------------------ initial state
Junk == [i \in 1..MaxPreLen |-> 88]

Init ==
    /\ dir \in {"absent", "dir", "file"}
    /\ listing \in (IF dir = "dir" THEN SUBSET Names ELSE {{}})
    /\ files = [n \in Names |-> IF n \in listing THEN Junk ELSE << >>]
    /\ handles = {}
    /\ pc = "idle"
    /\ cur = 0
    /\ wr = 0
    /\ run = 0
    /\ completed = {}
    /\ err = "none"
    /\ files0 = files
    /\ listing0 = listing
    /\ snap = files

\* --------------------------------------------------------------- actions
\* the script is run: main() is entered
Invoke ==
    /\ pc \in {"idle", "done"}
    /\ run < MaxRuns
    /\ pc' = "makedirs"
    /\ run' = run + 1
    /\ cur' = 0
    /\ wr' = 0
    /\ completed' = {}
    /\ files0' = files
    /\ listing0' = listing
    /\ UNCHANGED <<dir, listing, files, handles, err, snap>>

\* os.makedirs(data_dir, exist_ok=True)
MakeDirs ==
    /\ pc = "makedirs"
    /\ dir \in {"absent", "dir"}
    /\ dir' = "dir"
    /\ pc' = "open"
    /\ cur' = 1
    /\ UNCHANGED <<listing, files, handles, wr, run, completed, err,
                   files0, listing0, snap>>

\* os.makedirs raises (a file is in the way, or the parent is not writable)
MakeDirsFail ==
    /\ pc = "makedirs"
    /\ pc' = "failed"
    /\ err' = "FileSystemError"
    /\ UNCHANGED <<dir, listing, files, handles, cur, wr, run, completed,
                   files0, listing0, snap>>

\* with open(filename, ...) as f:
Open ==
    /\ pc = "open"
    /\ listing' = listing \cup {FileName(cur)}
    /\ files' = [files EXCEPT ![FileName(cur)] = OpenTrunc(@)]
    /\ handles' = handles \cup {FileName(cur)}
    /\ wr' = 1
    /\ pc' = "write"
    /\ UNCHANGED <<dir, cur, run, completed, err, files0, listing0, snap>>

\* open raises: nothing is created or truncated, no handle exists
OpenFail ==
    /\ pc = "open"
    /\ pc' = AfterWith(TRUE, cur)
    /\ cur' = IF pc' = "open" THEN cur + 1 ELSE cur
    /\ err' = "FileSystemError"
    /\ UNCHANGED <<dir, listing, files, handles, wr, run, completed,
                   files0, listing0, snap>>

\* the next f.write of the writer
Write ==
    /\ pc = "write"
    /\ wr <= Len(Chunks(Writer(cur)))
    /\ files' = [files EXCEPT
                   ![FileName(cur)] = WriteChunk(@, Chunks(Writer(cur))[wr])]
    /\ wr' = wr + 1
    /\ UNCHANGED <<dir, listing, handles, pc, cur, run, completed, err,
                   files0, listing0, snap>>

\* an f.write raises after n bytes of its chunk reached the file; the with
\* statement closes the handle and the exception leaves the writer
WriteFail ==
    /\ pc = "write"
    /\ wr <= Len(Chunks(Writer(cur)))
    /\ \E n \in 0..(Len(Chunks(Writer(cur))[wr]) - 1) :
         files' = [files EXCEPT
                     ![FileName(cur)] =
                        WriteChunk(@, SubSeq(Chunks(Writer(cur))[wr], 1, n))]
    /\ handles' = WithExit(handles, FileName(cur))
    /\ pc' = AfterWith(TRUE, cur)
    /\ cur' = IF pc' = "open" THEN cur + 1 ELSE cur
    /\ err' = "FileSystemError"
    /\ UNCHANGED <<dir, listing, wr, run, completed, files0, listing0, snap>>

\* the with block ends: the handle is closed and the writer returns
Close ==
    /\ pc = "write"
    /\ wr > Len(Chunks(Writer(cur)))
    /\ handles' = WithExit(handles, FileName(cur))
    /\ completed' = completed \cup {cur}
    /\ pc' = AfterWith(FALSE, cur)
    /\ cur' = IF pc' = "open" THEN cur + 1 ELSE cur
    /\ UNCHANGED <<dir, listing, files, wr, run, err, files0, listing0, snap>>

\* main() returns
Return ==
    /\ pc = "return"
    /\ pc' = "done"
    /\ snap' = IF run = 1 THEN files ELSE snap
    /\ UNCHANGED <<dir, listing, files, handles, cur, wr, run, completed,
                   err, files0, listing0>>

Next ==
    \/ Invoke
    \/ MakeDirs
    \/ MakeDirsFail
    \/ Open
    \/ OpenFail
    \/ Write
    \/ WriteFail
    \/ Close
    \/ Return

Spec == Init /\ [][Next]_vars

\* ------------------------------------------- the writers called in any order
\* the effect of one whole call of writer i on the directory
WriterEffect(i, fs) == [fs EXCEPT ![FileName(i)] = FileAfter(i, @)]

InitAnyOrder ==
    /\ dir = "dir"
    /\ listing \in SUBSET Names
    /\ files = [n \in Names |-> IF n \in listing THEN Junk ELSE << >>]
    /\ handles = {}
    /\ pc = "anyorder"
    /\ cur = 0
    /\ wr = 0
    /\ run = 1
    /\ completed = {}
    /\ err = "none"
    /\ files0 = files
    /\ listing0 = listing
    /\ snap = files

\* one writer that has not run yet is called and runs to completion
CallWriter ==
    /\ pc = "anyorder"
    /\ \E i \in Calls \ completed :
         /\ files' = WriterEffect(i, files)
         /\ listing' = listing \cup {FileName(i)}
         /\ completed' = completed \cup {i}
         /\ cur' = i
    /\ UNCHANGED <<dir, handles, pc, wr, run, err, files0, listing0, snap>>

NextAnyOrder == CallWriter

SpecAnyOrder == InitAnyOrder /\ [][NextAnyOrder]_vars

\* ------------------------------------------------- reading a file back
\* the w bytes at byte offset off (counted from 0) of file f
Slice(f, off, w) == SubSeq(f, off + 1, off + w)

Reverse(s) == [i \in 1..Len(s) |-> s[Len(s) + 1 - i]]

RECURSIVE DecodeLE(_)
DecodeLE(b) == IF Len(b) = 0 THEN 0 ELSE b[1] + 256 * DecodeLE(Tail(b))

DecodeBE(b) == DecodeLE(Reverse(b))

LeFile == files["le_geotiff.tif"]
BeFile == files["be_geotiff.tif"]
RegularFile == files["regular.tif"]
CorruptedFile == files["corrupted.tif"]
TruncatedFile == files["truncated.tif"]
NotTiffFile == files["not_tiff.txt"]

\* <<offset, width>> of every integer field of the GeoTIFF fixtures
GeoFields ==
    << <<2, 2>>, <<4, 4>>, <<8, 2>>,
       <<10, 2>>, <<12, 2>>, <<14, 4>>, <<18, 4>>,
       <<22, 2>>, <<24, 2>>, <<26, 4>>, <<30, 4>>,
       <<34, 4>>,
       <<38, 2>>, <<40, 2>>, <<42, 2>>, <<44, 2>> >>

\* the value of each field of GeoFields, in the same order
GeoValues == <<42, 8, 2, 256, 3, 1, 100, 34735, 3, 4, 100, 0, 1, 1, 0, 0>>

\* C1: once write_le_geotiff has returned, le_geotiff.tif is exactly 46
\* bytes: 'II', 42, 8, entry count 2, the entries (256, 3, 1, 100) and
\* (34735, 3, 4, 100), next-IFD offset 0 and the key values 1, 1, 0, 0, every
\* integer little-endian, and nothing after them.
C1_LeGeotiffLayout ==
    1 \in completed =>
        /\ Len(LeFile) = 46
        /\ Slice(LeFile, 0, 2) = <<73, 73>>
        /\ \A k \in 1..Len(GeoFields) :
             DecodeLE(Slice(LeFile, GeoFields[k][1], GeoFields[k][2]))
                = GeoValues[k]
        /\ LeFile = <<73, 73, 42, 0, 8, 0, 0, 0, 2, 0,
                      0, 1, 3, 0, 1, 0, 0, 0, 100, 0, 0, 0,
                      175, 135, 3, 0, 4, 0, 0, 0, 100, 0, 0, 0,
                      0, 0, 0, 0,
                      1, 0, 1, 0, 0, 0, 0, 0>>

C1_Witness == 1 \in completed /\ pc = "open" /\ cur = 2 /\ handles = {}

\* C2: once both GeoTIFF writers have returned, be_geotiff.tif has the length
\* of le_geotiff.tif, every integer field decodes to the same value in its
\* own byte order, the bytes of every field are the reverse of the bytes of
\* the same field of le_geotiff.tif, and the magic is 'MM' instead of 'II'.
C2_BeMirrorsLe ==
    {1, 2} \subseteq completed =>
        /\ Len(BeFile) = Len(LeFile)
        /\ Slice(BeFile, 0, 2) = <<77, 77>>
        /\ Slice(LeFile, 0, 2) = <<73, 73>>
        /\ \A k \in 1..Len(GeoFields) :
             LET off == GeoFields[k][1]
                 w   == GeoFields[k][2]
             IN  /\ Slice(BeFile, off, w) = Reverse(Slice(LeFile, off, w))
                 /\ DecodeBE(Slice(BeFile, off, w))
                      = DecodeLE(Slice(LeFile, off, w))
                 /\ DecodeBE(Slice(BeFile, off, w)) = GeoValues[k]

C2_Witness == {1, 2} \subseteq completed /\ pc = "open" /\ cur = 3

\* C3: once write_regular_tiff has returned, regular.tif is exactly 26 bytes,
\* its entry count is 1, its only entry has tag 256, and no two consecutive
\* bytes of the file encode 34735 in either byte order.
C3_RegularHasNoGeoTag ==
    3 \in completed =>
        /\ Len(RegularFile) = 8 + 2 + 12 + 4
        /\ DecodeLE(Slice(RegularFile, 8, 2)) = 1
        /\ DecodeLE(Slice(RegularFile, 10, 2)) = 256
        /\ \A off \in 0..(Len(RegularFile) - 2) :
             /\ DecodeLE(Slice(RegularFile, off, 2)) # 34735
             /\ DecodeBE(Slice(RegularFile, off, 2)) # 34735

C3_Witness == 3 \in completed /\ pc = "open" /\ cur = 4

\* C4: once the three negative writers have returned, corrupted.tif is 8
\* bytes whose magic is neither 'II' nor 'MM' and whose bytes 2-7 decode as
\* little-endian 42 and 8; truncated.tif is the 4 bytes 'II', 42, fewer than
\* the 8 bytes of a header; not_tiff.txt starts with neither 'II' nor 'MM'.
C4_NegativeFixtures ==
    /\ 4 \in completed =>
         /\ Len(CorruptedFile) = 8
         /\ Slice(CorruptedFile, 0, 2) \notin {<<73, 73>>, <<77, 77>>}
         /\ DecodeLE(Slice(CorruptedFile, 2, 2)) = 42
         /\ DecodeLE(Slice(CorruptedFile, 4, 4)) = 8
    /\ 5 \in completed =>
         /\ Len(TruncatedFile) = 4
         /\ Len(TruncatedFile) < 8
         /\ Slice(TruncatedFile, 0, 2) = <<73, 73>>
         /\ DecodeLE(Slice(TruncatedFile, 2, 2)) = 42
    /\ 6 \in completed =>
         /\ Len(NotTiffFile) >= 2
         /\ Slice(NotTiffFile, 0, 2) \notin {<<73, 73>>, <<77, 77>>}

C4_Witness == {4, 5, 6} \subseteq completed /\ pc = "return"

\* C5: after every complete run of main() from the second on, each of the
\* six files holds exactly the bytes it held after the first complete run.
C5_Idempotent ==
    (pc = "done" /\ run >= 2) =>
        \A n \in FixtureNames :
            /\ files[n] = snap[n]
            /\ Len(files[n]) = Len(snap[n])

C5_Witness == pc = "done" /\ run >= 2 /\ FixtureNames \subseteq listing

\* C6 as stated: after main() has returned, the directory holds the six
\* fixture files and no other file.
C6_ExactlySixFiles ==
    pc = "done" => listing = FixtureNames

\* C6 amended: after main() has returned, the directory exists, holds the six
\* fixture files, and every other file in it is a file that was there when
\* main() started, with its content unchanged.
C6_SixFilesAndWhatWasThere ==
    pc = "done" =>
        /\ dir = "dir"
        /\ FixtureNames \subseteq listing
        /\ listing \ FixtureNames = listing0 \ FixtureNames
        /\ \A n \in Names \ FixtureNames : files[n] = files0[n]

C6_Witness == pc = "done" /\ run = 1 /\ StrayName \in listing0

RECURSIVE ApplyInOrder(_, _)
\* the directory after calls i..NCalls have run in the order of main()
ApplyInOrder(i, fs) ==
    IF i > NCalls THEN fs ELSE ApplyInOrder(i + 1, WriterEffect(i, fs))

\* C7: in whatever order the six writers are called, once all have returned
\* the files hold what they hold when main() calls them in its own order,
\* and a call changes no file but the one whose name it was given.
C7_OrderIndependent ==
    /\ [](completed = Calls =>
            /\ files = ApplyInOrder(1, files0)
            /\ listing = listing0 \cup FixtureNames)
    /\ [][\A n \in Names :
            (files'[n] # files[n] \/ (n \in listing') # (n \in listing))
               => (cur' \in Calls /\ n = MainCalls[cur'][2])]_vars

C7_Witness == pc = "anyorder" /\ completed = Calls /\ cur = 1

\* C8: at most one handle is open at any time; while a writer runs, its
\* handle is the only one and every earlier fixture is closed and complete;
\* no handle is open outside a writer, in particular after main() has
\* returned or has been ended by an error.
C8_HandleDiscipline ==
    /\ Cardinality(handles) <= 1
    /\ pc # "write" => handles = {}
    /\ pc = "write" => handles = {MainCalls[cur][2]}
    /\ pc \in {"open", "write"} =>
         \A i \in 1..(cur - 1) :
             /\ i \in completed
             /\ MainCalls[i][2] \notin handles
             /\ files[MainCalls[i][2]] = FileAfter(i, << >>)

C8_Witness == pc = "failed" /\ cur = 5 /\ TruncatedFile = <<73, 73, 42>>

\* C9: when main() has been ended by an error, the error is surfaced, every
\* fixture before the failing one holds its complete content, every file
\* after it is as it was when main() started, and nothing runs afterwards.
C9_FailureIsLocal ==
    /\ [](pc = "failed" =>
            /\ err = "FileSystemError"
            /\ handles = {}
            /\ (cur = 0 => (files = files0 /\ listing = listing0))
            /\ \A i \in Calls :
                 /\ i < cur => /\ i \in completed
                               /\ files[MainCalls[i][2]] = FileAfter(i, << >>)
                 /\ i > cur => /\ files[MainCalls[i][2]] = files0[MainCalls[i][2]]
                               /\ (MainCalls[i][2] \in listing)
                                     = (MainCalls[i][2] \in listing0)
            /\ files[StrayName] = files0[StrayName])
    /\ [][pc # "failed"]_vars

C9_Witness ==
    /\ pc = "failed" /\ cur = 3 /\ Len(RegularFile) = 10
    /\ {1, 2} \subseteq completed

\* C10: in both GeoTIFF fixtures the value/offset field of the entry with tag
\* 34735 is the offset of the 8 bytes of key data, and they lie in the file.
C10_OffsetReachesKeyData ==
    /\ 1 \in completed =>
         LET off == DecodeLE(Slice(LeFile, 30, 4))
         IN  /\ DecodeLE(Slice(LeFile, 22, 2)) = 34735
             /\ off + 8 <= Len(LeFile)
             /\ Slice(LeFile, off, 8) = <<1, 0, 1, 0, 0, 0, 0, 0>>
    /\ 2 \in completed =>
         LET off == DecodeBE(Slice(BeFile, 30, 4))
         IN  /\ DecodeBE(Slice(BeFile, 22, 2)) = 34735
             /\ off + 8 <= Len(BeFile)
             /\ Slice(BeFile, off, 8) = <<0, 1, 0, 1, 0, 0, 0, 0>>

====
